---- MODULE Spec2Model ----
(***************************************************************************)
(* StenciledBlock<verts_per_face> (geodesic/stenciled_block.cc): storage   *)
(* life cycle, stenciled-area marking, stencil zone lists, face and edge   *)
(* moments and the per-(face, stencil) geometry matrices.                  *)
(*                                                                         *)
(* The mesh block is a square patch of total_length x total_length cells;  *)
(* every cell is one quadrilateral face (verts_per_face = 4) or is split   *)
(* by its diagonal into two triangular faces (verts_per_face = 3).         *)
(* Floating-point results are kept as terms over the geometry kernels.     *)
(***************************************************************************)
EXTENDS Integers, Sequences, FiniteSets, TLC

----------------------------------------------------------------------------
(* Bounds of the model *)

\* largest side of the block, in cells, ghost cells included
MaxLength == 4
\* number of AssociateMesh calls in one block lifetime
MaxAssociate == 2
\* number of SetDimensions(construct = false) calls in one block lifetime
MaxResize == 1
\* number of distinct vertex coordinate arrays handed to AssociateMesh
NumGeoms == 2

\* sides of the block: 3 is the smallest patch in which a face has all its
\* neighbours and their neighbours
Lengths == 3..MaxLength
Geoms == 1..NumGeoms

----------------------------------------------------------------------------
(* Values of pointers and of storage that was never written *)

\* the null pointer, as written by memset(..., 0x0, ...)
NULL == 0
\* a pointer read from storage that was allocated and never written
WILD == 0 - 1
\* an int read from a zone list that was allocated and never written
UNWRITTEN == 0 - 9

\* contents of an array of doubles or GeoVectors that was never written
Indeterminate == [kind |-> "indeterminate", cart |-> 0, tri1 |-> <<>>, tri2 |-> <<>>]

\* the literal 0.0 and the vector gv_zeros
Zero == [kind |-> "zero", cart |-> 0, tri1 |-> <<>>, tri2 |-> <<>>]

----------------------------------------------------------------------------
(* Mesh topology provider (GridBlock / GeodesicSector), read-only tables *)

\* number of faces of a block of side n
NFaces(vpf, n) == IF vpf = 4 THEN n * n ELSE 2 * n * n

\* number of edges: cell sides, plus the cell diagonals of a triangular mesh
NEdges(vpf, n) == 2 * n * (n + 1) + (IF vpf = 3 THEN n * n ELSE 0)

\* index of the face in cell (i, j); t selects the triangle below (0) or above
\* (1) the diagonal; -1 when the cell is outside the block
FaceAt(vpf, n, i, j, t) ==
    IF i < 0 \/ j < 0 \/ i >= n \/ j >= n THEN 0 - 1
    ELSE IF vpf = 4 THEN i * n + j
    ELSE 2 * (i * n + j) + t

CellI(vpf, n, face) == (IF vpf = 4 THEN face ELSE face \div 2) \div n
CellJ(vpf, n, face) == (IF vpf = 4 THEN face ELSE face \div 2) % n
CellT(vpf, face) == IF vpf = 4 THEN 0 ELSE face % 2

VertAt(n, i, j) == i * (n + 1) + j

\* neighbour faces across the sides of a face, as a 1-based sequence holding
\* the code's ff_local[face][0..verts_per_face-1]
FaceNeighbours(vpf, n, face) ==
    LET i == CellI(vpf, n, face)
        j == CellJ(vpf, n, face)
    IN  IF vpf = 4
        THEN << FaceAt(vpf, n, i, j - 1, 0), FaceAt(vpf, n, i + 1, j, 0),
                FaceAt(vpf, n, i, j + 1, 0), FaceAt(vpf, n, i - 1, j, 0) >>
        ELSE IF CellT(vpf, face) = 0
        THEN << FaceAt(vpf, n, i, j - 1, 1), FaceAt(vpf, n, i + 1, j, 1),
                FaceAt(vpf, n, i, j, 1) >>
        ELSE << FaceAt(vpf, n, i, j, 0), FaceAt(vpf, n, i, j + 1, 0),
                FaceAt(vpf, n, i - 1, j, 0) >>

\* vertices of a face, holding the code's fv_local[face][0..verts_per_face-1]
FaceVerts(vpf, n, face) ==
    LET i == CellI(vpf, n, face)
        j == CellJ(vpf, n, face)
    IN  IF vpf = 4
        THEN << VertAt(n, i, j), VertAt(n, i + 1, j),
                VertAt(n, i + 1, j + 1), VertAt(n, i, j + 1) >>
        ELSE IF CellT(vpf, face) = 0
        THEN << VertAt(n, i, j), VertAt(n, i + 1, j), VertAt(n, i + 1, j + 1) >>
        ELSE << VertAt(n, i, j), VertAt(n, i + 1, j + 1), VertAt(n, i, j + 1) >>

\* the two vertices of an edge, holding the code's ev_local[edge][0..1]
EdgeVerts(vpf, n, edge) ==
    LET nside == n * (n + 1)
    IN  IF edge < nside
        THEN << VertAt(n, edge \div (n + 1), edge % (n + 1)),
                VertAt(n, (edge \div (n + 1)) + 1, edge % (n + 1)) >>
        ELSE IF edge < 2 * nside
        THEN << VertAt(n, (edge - nside) \div n, (edge - nside) % n),
                VertAt(n, (edge - nside) \div n, ((edge - nside) % n) + 1) >>
        ELSE << VertAt(n, (edge - 2 * nside) \div n, (edge - 2 * nside) % n),
                VertAt(n, ((edge - 2 * nside) \div n) + 1, ((edge - 2 * nside) % n) + 1) >>

\* number of faces that fill one square cell of the sector: two triangles or
\* one quadrilateral
SquareFill(vpf) == IF vpf = 3 THEN 2 ELSE 1

\* number of stencils per face: one central, and one per side for each of the
\* two radial planes
NStencils(vpf) == 2 * vpf + 1

\* the block interior plus one layer of faces: whether the marking loops
\* visit face f
InteriorPlusOne(vpf, n, f) ==
    /\ CellI(vpf, n, f) >= 1 /\ CellI(vpf, n, f) <= n - 2
    /\ CellJ(vpf, n, f) >= 1 /\ CellJ(vpf, n, f) <= n - 2

\* the small triangles at the SE corner: the faces visited by the first
\* clipping loop
CornerSE(vpf, n) == { FaceAt(vpf, n, n - 2, 1, 0) }

\* the small triangles at the N corner: the faces visited by the second
\* clipping loop
CornerN(vpf, n) == { FaceAt(vpf, n, n - 2, n - 2, 1) }

\* faces and edges that do not exist when the block has singular corners
\* (GEOELM_NEXI, raised by GridBlock::AssociateMesh from its corners argument)
MissingFaces(vpf, n, corners) ==
    IF corners THEN { FaceAt(vpf, n, 0, 0, 0), FaceAt(vpf, n, n - 1, n - 1, 0) } ELSE {}

MissingEdges(vpf, n, corners) ==
    IF corners THEN { 0, NEdges(vpf, n) - 1 } ELSE {}

\* position of val in the first n entries of list, or -1
InList(n, list, val) ==
    IF \E k \in 1..n : list[k] = val
    THEN (CHOOSE k \in 1..n : list[k] = val /\ \A m \in 1..(k - 1) : list[m] # val) - 1
    ELSE 0 - 1

----------------------------------------------------------------------------
VARIABLES
    verts_per_face,     \* template argument: 3 or 4
    total_length,       \* side of the block in cells, ghost cells included
    face_mask,          \* per face: the set of raised bits among GEOELM_NEXI, GEOELM_STEN
    edge_mask,          \* per edge: the set of raised bits (GEOELM_NEXI)
    block_vert_cart,    \* the vertex coordinate array associated (0: none)
    face_area,          \* contents of the face_area array
    face_cmass,         \* contents of the face_cmass array
    edge_length,        \* contents of the edge_length array
    zones_per_stencil,  \* member array, set by BuildAllStencils
    stencil_zonelist,   \* the table of zone-list pointers, [face][stencil]
    zone_data,          \* the ints stored behind each zone-list pointer of the table
    geom_matr_At,       \* [face][stencil]: the rows of A (At is their transpose)
    geom_matr_LU,       \* the (face, stencil) pairs whose AtA has been factorized
    storage,            \* addresses of the arrays the block's pointers hold
    heap,               \* addresses currently allocated
    next_addr,          \* next address operator new hands out
    heap_error,         \* delete[] was given a pointer that is not null and not allocated
    heap_overrun,       \* a zone list was written outside its allocation
    pc,                 \* position of the caller: idle, a phase of AssociateMesh, destroyed
    phase_log,          \* history: the phases completed since construction, in order
    cmass_fresh,        \* history: ComputeMoments has run in the current AssociateMesh call
    bad_read,           \* history: ComputeOneMatrix read unwritten or stale storage
    n_assoc,            \* history: number of AssociateMesh calls
    n_resize            \* history: number of SetDimensions(construct = false) calls

vars == << verts_per_face, total_length, face_mask, edge_mask, block_vert_cart,
           face_area, face_cmass, edge_length, zones_per_stencil, stencil_zonelist,
           zone_data, geom_matr_At, geom_matr_LU, storage, heap, next_addr,
           heap_error, heap_overrun, pc, phase_log,
           cmass_fresh, bad_read, n_assoc, n_resize >>

n_faces_withghost == NFaces(verts_per_face, total_length)
n_edges_withghost == NEdges(verts_per_face, total_length)
n_stencils == NStencils(verts_per_face)
square_fill == SquareFill(verts_per_face)
Faces == 0..(n_faces_withghost - 1)
Edges == 0..(n_edges_withghost - 1)
Stencils == 0..(n_stencils - 1)
ff_local(face) == FaceNeighbours(verts_per_face, total_length, face)
fv_local(face) == FaceVerts(verts_per_face, total_length, face)
ev_local(edge) == EdgeVerts(verts_per_face, total_length, edge)

\* BITS_RAISED(face_mask[face], GEOELM_STEN)
IsStenciled(face) == "GEOELM_STEN" \in face_mask[face]

\* BITS_RAISED(mask, GEOELM_NEXI)
NotExists(mask) == "GEOELM_NEXI" \in mask

----------------------------------------------------------------------------
(* MarkStenciledArea *)

\* the face masks after MarkStenciledArea: GEOELM_STEN raised on the interior
\* plus one layer, then lowered on the two corner wedges of a triangular mesh
MarkStenciledArea(vpf, n, mask) ==
    LET marked == [f \in DOMAIN mask |->
                     IF InteriorPlusOne(vpf, n, f)
                     THEN mask[f] \cup {"GEOELM_STEN"} ELSE mask[f]]
    IN  IF vpf = 3
        THEN [f \in DOMAIN mask |->
                IF f \in CornerSE(vpf, n) \cup CornerN(vpf, n)
                THEN marked[f] \ {"GEOELM_STEN"} ELSE marked[f]]
        ELSE marked

----------------------------------------------------------------------------
(* SetDimensions and FreeStorage *)

\* the zone-list pointer table SetDimensions leaves without the memset
ZoneTableNotCleared(vpf, n) ==
    [f \in 0..(NFaces(vpf, n) - 1) |-> [s \in 0..(NStencils(vpf) - 1) |-> WILD]]

\* the zone-list pointer table after Create2D and memset in SetDimensions
ZoneTableCleared(vpf, n) ==
    [f \in 0..(NFaces(vpf, n) - 1) |-> [s \in 0..(NStencils(vpf) - 1) |-> NULL]]

\* the six arrays SetDimensions allocates, at consecutive addresses from addr
StorageAt(addr) ==
    [ face_area |-> addr, face_cmass |-> addr + 1, edge_length |-> addr + 2,
      stencil_zonelist |-> addr + 3, geom_matr_At |-> addr + 4,
      geom_matr_LU |-> addr + 5 ]

StorageAddrs(st) ==
    { st.face_area, st.face_cmass, st.edge_length, st.stencil_zonelist,
      st.geom_matr_At, st.geom_matr_LU }

\* the pointers FreeStorage passes to delete[] in its zone-list loop
ZoneListsDeleted ==
    { stencil_zonelist[f][s] : f \in { g \in Faces : IsStenciled(g) }, s \in Stencils }

\* the heap after FreeStorage
FreeStorageHeap == heap \ (StorageAddrs(storage) \cup ZoneListsDeleted)

\* FreeStorage deletes a pointer that is neither null nor currently allocated
FreeStorageError ==
    \/ \E p \in ZoneListsDeleted : p # NULL /\ p \notin heap
    \/ \E p \in StorageAddrs(storage) : p \notin heap

\* GridBlock::SetDimensions(width, wghost, height, hghost, false): the storage
\* of the old dimensions is destroyed when the block is re-dimensioned
BaseSetDimensionsHeap == FreeStorageHeap

BaseSetDimensionsError == FreeStorageError

\* the state SetDimensions(width, wghost, height, hghost, construct) leaves for
\* a block of side n, allocating from address addr on heap h
Dimensioned(vpf, n, h, addr) ==
    [ total_length |-> n,
      face_mask |-> MarkStenciledArea(vpf, n, [f \in 0..(NFaces(vpf, n) - 1) |-> {}]),
      edge_mask |-> [e \in 0..(NEdges(vpf, n) - 1) |-> {}],
      face_area |-> [f \in 0..(NFaces(vpf, n) - 1) |-> Indeterminate],
      face_cmass |-> [f \in 0..(NFaces(vpf, n) - 1) |-> Indeterminate],
      edge_length |-> [e \in 0..(NEdges(vpf, n) - 1) |-> Indeterminate],
      stencil_zonelist |-> ZoneTableCleared(vpf, n),
      zone_data |-> [f \in 0..(NFaces(vpf, n) - 1) |-> [s \in 0..(NStencils(vpf) - 1) |-> <<>>]],
      geom_matr_At |-> [f \in 0..(NFaces(vpf, n) - 1) |-> [s \in 0..(NStencils(vpf) - 1) |-> <<>>]],
      storage |-> StorageAt(addr),
      heap |-> h \cup StorageAddrs(StorageAt(addr)),
      next_addr |-> addr + 6 ]

\* the state after the constructor: GridBlock's constructor, then
\* SetDimensions(width, wghost, height, hghost, true)
Init ==
    /\ verts_per_face \in {3, 4}
    /\ \E n \in Lengths :
         LET d == Dimensioned(verts_per_face, n, {}, 1)
         IN  /\ total_length = d.total_length
             /\ face_mask = d.face_mask
             /\ edge_mask = d.edge_mask
             /\ face_area = d.face_area
             /\ face_cmass = d.face_cmass
             /\ edge_length = d.edge_length
             /\ stencil_zonelist = d.stencil_zonelist
             /\ zone_data = d.zone_data
             /\ geom_matr_At = d.geom_matr_At
             /\ storage = d.storage
             /\ heap = d.heap
             /\ next_addr = d.next_addr
    /\ block_vert_cart = 0
    /\ zones_per_stencil = [s \in 0..(NStencils(verts_per_face) - 1) |-> 0]
    /\ geom_matr_LU = {}
    /\ heap_error = FALSE
    /\ heap_overrun = FALSE
    /\ pc = "idle"
    /\ phase_log = << "MarkStenciledArea" >>
    /\ cmass_fresh = {}
    /\ bad_read = FALSE
    /\ n_assoc = 0
    /\ n_resize = 0

\* SetDimensions(width, wghost, height, hghost, false): GridBlock::SetDimensions
\* releases the storage of the old dimensions and re-dimensions the mesh
\* tables, then the arrays are allocated and the stenciled area marked
SetDimensions(n) ==
    /\ pc = "idle"
    /\ n_resize < MaxResize
    /\ LET d == Dimensioned(verts_per_face, n, BaseSetDimensionsHeap, next_addr)
       IN  /\ total_length' = d.total_length
           /\ face_mask' = d.face_mask
           /\ edge_mask' = d.edge_mask
           /\ face_area' = d.face_area
           /\ face_cmass' = d.face_cmass
           /\ edge_length' = d.edge_length
           /\ stencil_zonelist' = d.stencil_zonelist
           /\ zone_data' = d.zone_data
           /\ geom_matr_At' = d.geom_matr_At
           /\ storage' = d.storage
           /\ heap' = d.heap
           /\ next_addr' = d.next_addr
    /\ heap_error' = (heap_error \/ BaseSetDimensionsError)
    /\ block_vert_cart' = 0
    /\ geom_matr_LU' = {}
    /\ phase_log' = Append(phase_log, "MarkStenciledArea")
    /\ cmass_fresh' = {}
    /\ n_resize' = n_resize + 1
    /\ UNCHANGED << verts_per_face, zones_per_stencil, heap_overrun, pc,
                    bad_read, n_assoc >>

\* ~StenciledBlock(): FreeStorage()
Destructor ==
    /\ pc = "idle"
    /\ heap' = FreeStorageHeap
    /\ heap_error' = (heap_error \/ FreeStorageError)
    /\ pc' = "destroyed"
    /\ UNCHANGED << verts_per_face, total_length, face_mask, edge_mask, block_vert_cart,
                    face_area, face_cmass, edge_length, zones_per_stencil,
                    stencil_zonelist, zone_data, geom_matr_At, geom_matr_LU, storage,
                    next_addr, heap_overrun, phase_log,
                    cmass_fresh, bad_read, n_assoc, n_resize >>

----------------------------------------------------------------------------
(* AssociateMesh: the order of its phases *)

\* the calls AssociateMesh makes after GridBlock::AssociateMesh, in order
AssociateMeshMomentsFirst == << "ComputeMoments", "BuildAllStencils", "ComputeOneMatrix" >>

AssociateMeshMatrixFirst == << "BuildAllStencils", "ComputeOneMatrix", "ComputeMoments" >>

AssociateMeshSteps == << "BuildAllStencils", "ComputeMoments", "ComputeOneMatrix" >>

\* the position after a phase of AssociateMesh returns
StepAfter(step) ==
    LET k == CHOOSE i \in 1..Len(AssociateMeshSteps) : AssociateMeshSteps[i] = step
    IN  IF k < Len(AssociateMeshSteps) THEN AssociateMeshSteps[k + 1] ELSE "idle"

\* AssociateMesh is entered: GridBlock::AssociateMesh stores the vertex
\* coordinates and raises GEOELM_NEXI on the faces and edges that the corner
\* types make non-existent
AssociateMeshBegin(cart, corners) ==
    /\ pc = "idle"
    /\ n_assoc < MaxAssociate
    /\ block_vert_cart' = cart
    /\ face_mask' = [f \in Faces |->
                       (face_mask[f] \ {"GEOELM_NEXI"}) \cup
                       (IF f \in MissingFaces(verts_per_face, total_length, corners)
                        THEN {"GEOELM_NEXI"} ELSE {})]
    /\ edge_mask' = [e \in Edges |->
                       IF e \in MissingEdges(verts_per_face, total_length, corners)
                       THEN {"GEOELM_NEXI"} ELSE {}]
    /\ pc' = AssociateMeshSteps[1]
    /\ cmass_fresh' = {}
    /\ n_assoc' = n_assoc + 1
    /\ UNCHANGED << verts_per_face, total_length, face_area, face_cmass, edge_length,
                    zones_per_stencil, stencil_zonelist, zone_data, geom_matr_At,
                    geom_matr_LU, storage, heap, next_addr, heap_error, heap_overrun,
                    phase_log, bad_read, n_resize >>

----------------------------------------------------------------------------
(* BuildAllStencils *)

\* zones_per_stencil[stencil] with the central stencil one zone short
ZonesPerStencilShort(stencil) == IF stencil = 0 THEN verts_per_face + 1 ELSE 4

\* zones_per_stencil[stencil] as BuildAllStencils sets it
ZonesPerStencil(stencil) == IF stencil = 0 THEN verts_per_face + 2 ELSE 4

\* new int[2 * zones_per_stencil[stencil]]
NewZoneList(stencil) == [k \in 1..(2 * ZonesPerStencil(stencil)) |-> UNWRITTEN]

\* local offset of the first flanking neighbour of nface
FlankFirst(ic) == (ic + 1) % verts_per_face

\* the second flank with the number of sides in place of the literal 4
FlankSecondByArity(ic) == (ic + verts_per_face - square_fill) % verts_per_face

\* local offset of the second flanking neighbour of nface
FlankSecond(ic) == (ic + 4 - square_fill) % verts_per_face

\* the writes to the central zone list of pface, as <<index, value>> pairs
CentralWrites(pface) ==
    [k \in 1..(2 * verts_per_face) |->
        IF (k - 1) % 2 = 0
        THEN << k - 1, ff_local(pface)[((k - 1) \div 2) + 1] >>
        ELSE << k - 1, 0 >>]
    \o << << 2 * verts_per_face, pface >>, << 2 * verts_per_face + 1, 0 - 1 >>,
          << 2 * verts_per_face + 2, pface >>, << 2 * verts_per_face + 3, 1 >> >>

\* the directional writes with the principal face in the last zone
DirectionalWritesPrincipal(pface, stencil, plane) ==
    LET nface == ff_local(pface)[stencil]
        ic == InList(verts_per_face, ff_local(nface), pface)
    IN  << << 0, nface >>, << 1, 0 >>,
           << 2, ff_local(nface)[FlankFirst(ic) + 1] >>, << 3, 0 >>,
           << 4, ff_local(nface)[FlankSecond(ic) + 1] >>, << 5, 0 >>,
           << 6, pface >>, << 7, plane >> >>

\* the writes to a directional zone list of pface for side stencil - 1; plane
\* is -1 for list stencil and +1 for list stencil + verts_per_face
DirectionalWrites(pface, stencil, plane) ==
    LET nface == ff_local(pface)[stencil]
        ic == InList(verts_per_face, ff_local(nface), pface)
    IN  << << 0, nface >>, << 1, 0 >>,
           << 2, ff_local(nface)[FlankFirst(ic) + 1] >>, << 3, 0 >>,
           << 4, ff_local(nface)[FlankSecond(ic) + 1] >>, << 5, 0 >>,
           << 6, nface >>, << 7, plane >> >>

\* the writes BuildAllStencils makes to stencil_zonelist[pface][stencil]
ZoneWrites(pface, stencil) ==
    IF stencil = 0 THEN CentralWrites(pface)
    ELSE IF stencil <= verts_per_face THEN DirectionalWrites(pface, stencil, 0 - 1)
    ELSE DirectionalWrites(pface, stencil - verts_per_face, 1)

\* a list after the writes that fall inside it, made in order
ApplyWrites(list, writes) ==
    [k \in DOMAIN list |->
        LET hits == { i \in DOMAIN writes : writes[i][1] = k - 1 }
        IN  IF hits = {} THEN list[k]
            ELSE writes[CHOOSE i \in hits : \A j \in hits : j <= i][2]]

\* some write falls outside the list
Overruns(list, writes) ==
    \E k \in DOMAIN writes : writes[k][1] + 1 \notin DOMAIN list

\* the faces BuildAllStencils allocates zone lists for
StenciledFaces == { f \in Faces : IsStenciled(f) }

\* number of stenciled faces before pface
StenciledRank(pface) == Cardinality({ f \in StenciledFaces : f < pface })

\* the address of the zone list allocated for (pface, stencil), pface being
\* the rank-th stenciled face; the table itself is at next_addr
ZoneListAddr(rank, stencil) == next_addr + 1 + rank * n_stencils + stencil

\* BuildAllStencils: zones_per_stencil is set, a new pointer table is created
\* (its entries are not cleared: fill is what the fresh storage holds), a zone
\* list is allocated for every stencil of every stenciled face and filled
BuildAllStencils ==
    /\ pc = "BuildAllStencils"
    /\ zones_per_stencil' = [s \in Stencils |-> ZonesPerStencil(s)]
    /\ zone_data' = [f \in Faces |-> [s \in Stencils |->
                        IF IsStenciled(f)
                        THEN ApplyWrites(NewZoneList(s), ZoneWrites(f, s))
                        ELSE << >>]]
    /\ heap_overrun' = (heap_overrun \/
                          \E f \in StenciledFaces, s \in Stencils :
                             Overruns(NewZoneList(s), ZoneWrites(f, s)))
    /\ storage' = [storage EXCEPT !.stencil_zonelist = next_addr]
    /\ heap' = heap \cup {next_addr}
                    \cup { ZoneListAddr(StenciledRank(f), s) :
                              f \in StenciledFaces, s \in Stencils }
    /\ next_addr' = next_addr + 1 + Cardinality(StenciledFaces) * n_stencils
    /\ phase_log' = Append(phase_log, "BuildAllStencils")
    /\ pc' = StepAfter("BuildAllStencils")
    /\ UNCHANGED << verts_per_face, total_length, face_mask, edge_mask, block_vert_cart,
                    face_area, face_cmass, edge_length, geom_matr_At, geom_matr_LU,
                    heap_error, cmass_fresh, bad_read, n_assoc, n_resize >>
    /\ \E fill \in {NULL, WILD} :
         stencil_zonelist' = [f \in Faces |-> [s \in Stencils |->
                                 IF IsStenciled(f)
                                 THEN ZoneListAddr(StenciledRank(f), s) ELSE fill]]

----------------------------------------------------------------------------
(* ComputeMoments *)

\* the vertex triples of the spherical triangles a face is split into; the
\* second is empty for a triangular face (area2 = 0.0, cm2 = gv_zeros)
FirstTriangle(face) == << fv_local(face)[1], fv_local(face)[2], fv_local(face)[3] >>

SecondTriangle(face) ==
    IF verts_per_face = 4
    THEN << fv_local(face)[3], fv_local(face)[4], fv_local(face)[1] >>
    ELSE << >>

\* the moments computed without the test for faces that do not exist
ComputeMomentsFaceUnmasked(face) ==
    [ area |-> [kind |-> "SphTriArea sum", cart |-> block_vert_cart,
                tri1 |-> FirstTriangle(face), tri2 |-> SecondTriangle(face)],
      cmass |-> [kind |-> "SphTriCenter area-weighted mean", cart |-> block_vert_cart,
                 tri1 |-> FirstTriangle(face), tri2 |-> SecondTriangle(face)] ]

\* face_area[face] and face_cmass[face] as ComputeMoments writes them: zero
\* for a face that does not exist; otherwise area1 + area2 and
\* (cm1 * area1 + cm2 * area2) / face_area[face] over the face's triangles
ComputeMomentsFace(face) ==
    IF NotExists(face_mask[face])
    THEN [ area |-> Zero, cmass |-> Zero ]
    ELSE [ area |-> [kind |-> "SphTriArea sum", cart |-> block_vert_cart,
                     tri1 |-> FirstTriangle(face), tri2 |-> SecondTriangle(face)],
           cmass |-> [kind |-> "SphTriCenter area-weighted mean", cart |-> block_vert_cart,
                      tri1 |-> FirstTriangle(face), tri2 |-> SecondTriangle(face)] ]

\* acos(block_vert_cart[ev_local[edge][0]] * block_vert_cart[ev_local[edge][1]])
ArcLength(edge) ==
    [kind |-> "acos of dot product", cart |-> block_vert_cart,
     tri1 |-> ev_local(edge), tri2 |-> << >>]

\* edge_length[edge] after ComputeMoments: written when GEOELM_NEXI is raised
\* in edge_mask[edge], left alone otherwise
ComputeMomentsEdge(edge) ==
    IF NotExists(edge_mask[edge]) THEN ArcLength(edge) ELSE edge_length[edge]

ComputeMoments ==
    /\ pc = "ComputeMoments"
    /\ face_area' = [f \in Faces |-> ComputeMomentsFace(f).area]
    /\ face_cmass' = [f \in Faces |-> ComputeMomentsFace(f).cmass]
    /\ edge_length' = [e \in Edges |-> ComputeMomentsEdge(e)]
    /\ cmass_fresh' = Faces
    /\ phase_log' = Append(phase_log, "ComputeMoments")
    /\ pc' = StepAfter("ComputeMoments")
    /\ UNCHANGED << verts_per_face, total_length, face_mask, edge_mask, block_vert_cart,
                    zones_per_stencil, stencil_zonelist, zone_data, geom_matr_At,
                    geom_matr_LU, storage, heap, next_addr, heap_error, heap_overrun,
                    bad_read, n_assoc, n_resize >>

----------------------------------------------------------------------------
(* ComputeOneMatrix and the loop of AssociateMesh that calls it *)

\* stencil_zonelist[pface][stencil][k]
ZoneEntry(pface, stencil, k) ==
    IF k + 1 \in DOMAIN zone_data[pface][stencil]
    THEN zone_data[pface][stencil][k + 1] ELSE UNWRITTEN

\* rp_factor for a zone of the given radial plane
RpFactor(plane) ==
    CASE plane = 0 - 1 -> "1.0 + drp_ratio"
      [] plane = 1     -> "1.0 / (1.0 + drp_ratio)"
      [] OTHER         -> "1.0"

\* row of geom_matr_A: rp_factor * face_cmass[face] - face_cmass[pface]
MatrixRow(pface, stencil, row) ==
    LET face == ZoneEntry(pface, stencil, 2 * row)
    IN  [ rp_factor |-> RpFactor(ZoneEntry(pface, stencil, 2 * row + 1)),
          zone |-> IF face \in Faces THEN face_cmass[face] ELSE Indeterminate,
          principal |-> face_cmass[pface] ]

\* ComputeOneMatrix(pface, stencil) reads a zone list that is not allocated, a
\* zone entry that was never written, or a center of mass that the current
\* AssociateMesh call has not computed
ReadsUnwritten(pface, stencil) ==
    \/ stencil_zonelist[pface][stencil] \notin heap
    \/ pface \notin cmass_fresh
    \/ \E row \in 0..(zones_per_stencil[stencil] - 1) :
          \/ ZoneEntry(pface, stencil, 2 * row) = UNWRITTEN
          \/ ZoneEntry(pface, stencil, 2 * row + 1) = UNWRITTEN
          \/ ZoneEntry(pface, stencil, 2 * row) \notin cmass_fresh

\* geom_matr_A as ComputeOneMatrix(pface, stencil) generates it, one row per
\* zone of the stencil (geom_matr_At[pface][stencil] is its transpose)
ComputeOneMatrix(pface, stencil) ==
    [r \in 1..zones_per_stencil[stencil] |-> MatrixRow(pface, stencil, r - 1)]

\* AssociateMesh's loop over the faces: ComputeOneMatrix(pface, stencil) for
\* every stencil of every face with GEOELM_STEN raised
MatrixLoop ==
    /\ pc = "ComputeOneMatrix"
    /\ geom_matr_At' = [f \in Faces |->
                          IF IsStenciled(f)
                          THEN [s \in Stencils |-> ComputeOneMatrix(f, s)]
                          ELSE geom_matr_At[f]]
    /\ geom_matr_LU' = geom_matr_LU \cup (StenciledFaces \X Stencils)
    /\ bad_read' = (bad_read \/
                      \E f \in StenciledFaces, s \in Stencils : ReadsUnwritten(f, s))
    /\ phase_log' = IF StenciledFaces = {} THEN phase_log
                    ELSE Append(phase_log, "ComputeOneMatrix")
    /\ pc' = StepAfter("ComputeOneMatrix")
    /\ UNCHANGED << verts_per_face, total_length, face_mask, edge_mask, block_vert_cart,
                    face_area, face_cmass, edge_length, zones_per_stencil,
                    stencil_zonelist, zone_data, storage, heap, next_addr, heap_error,
                    heap_overrun, cmass_fresh, n_assoc, n_resize >>

----------------------------------------------------------------------------
Next ==
    \/ \E n \in Lengths : SetDimensions(n)
    \/ \E cart \in Geoms, corners \in BOOLEAN : AssociateMeshBegin(cart, corners)
    \/ BuildAllStencils
    \/ ComputeMoments
    \/ MatrixLoop
    \/ Destructor

Spec == Init /\ [][Next]_vars

----------------------------------------------------------------------------
(* Properties *)

\* AssociateMesh has returned and the block has not been re-dimensioned since
Associated == pc = "idle" /\ block_vert_cart # 0

\* BuildAllStencils has returned in the current or the last AssociateMesh call
StencilsBuilt == pc \in {"ComputeMoments", "ComputeOneMatrix"} \/ Associated

\* ComputeMoments has returned in the current or the last AssociateMesh call
MomentsComputed == pc \in {"ComputeOneMatrix", "idle"} /\ cmass_fresh # {}

Sides == 1..verts_per_face

\* position of the first entry of phase_log that names the phase, or 0
FirstDone(phase) ==
    IF \E i \in DOMAIN phase_log : phase_log[i] = phase
    THEN CHOOSE i \in DOMAIN phase_log :
            phase_log[i] = phase /\ \A j \in 1..(i - 1) : phase_log[j] # phase
    ELSE 0

\* C1 as stated: after AssociateMesh, for every stenciled face and every side
\* s, the last zone of the directional-down stencil is (principal face, -1)
\* and the last zone of the directional-up stencil is (principal face, +1).
C1_LastZoneIsPrincipal ==
    Associated =>
        \A f \in StenciledFaces, s \in Sides :
            /\ ZoneEntry(f, s, 6) = f
            /\ ZoneEntry(f, s, 7) = 0 - 1
            /\ ZoneEntry(f, s + verts_per_face, 6) = f
            /\ ZoneEntry(f, s + verts_per_face, 7) = 1

\* C1 amended: after AssociateMesh, for every stenciled face and every side
\* s, the last zone of the directional-down stencil is (N, -1) and the last
\* zone of the directional-up stencil is (N, +1), where N is the neighbour
\* across side s: the same face as in the first zone, not the principal face.
C1_LastZoneIsNeighbour ==
    Associated =>
        \A f \in StenciledFaces, s \in Sides :
            /\ ff_local(f)[s] # f
            /\ ZoneEntry(f, s, 6) = ff_local(f)[s]
            /\ ZoneEntry(f, s, 6) = ZoneEntry(f, s, 0)
            /\ ZoneEntry(f, s, 7) = 0 - 1
            /\ ZoneEntry(f, s + verts_per_face, 6) = ff_local(f)[s]
            /\ ZoneEntry(f, s + verts_per_face, 7) = 1

C1_Witness ==
    /\ Associated
    /\ \E f \in StenciledFaces : ZoneEntry(f, 1, 7) = 0 - 1 /\ ZoneEntry(f, 1, 6) # f

\* C2 as stated: a ComputeMoments call writes the arc length into edge_length
\* for every edge that exists (GEOELM_NEXI not raised) and leaves edge_length
\* unchanged for every edge flagged as non-existent.
C2_EdgeLengthForExistingEdges ==
    [][ (pc = "ComputeMoments" /\ pc' # "ComputeMoments") =>
          \A e \in Edges :
             IF NotExists(edge_mask[e])
             THEN edge_length'[e] = edge_length[e]
             ELSE edge_length'[e] = ArcLength(e) ]_vars

\* C3 as stated: after the destructor returns, no array allocated by the block
\* remains allocated.
C3_NothingLeaked == pc = "destroyed" => heap = {}

\* C4 as stated: in every state after SetDimensions, before and after any
\* number of AssociateMesh calls, every face without GEOELM_STEN has a null
\* zone-list pointer for every stencil.
C4_NullOutsideStenciledArea ==
    pc # "destroyed" =>
        \A f \in Faces, s \in Stencils :
            ~IsStenciled(f) => stencil_zonelist[f][s] = NULL

\* C5 as stated: the phases complete in the order moments, region marking,
\* stencil build, matrix build.
C5_MomentsBeforeMarking ==
    FirstDone("ComputeOneMatrix") # 0 =>
        /\ FirstDone("ComputeMoments") < FirstDone("MarkStenciledArea")
        /\ FirstDone("MarkStenciledArea") < FirstDone("BuildAllStencils")
        /\ FirstDone("BuildAllStencils") < FirstDone("ComputeOneMatrix")

\* C5 amended: the phases complete in the order region marking, stencil build,
\* moments, matrix build: MarkStenciledArea has completed before every
\* BuildAllStencils, every ComputeMoments directly follows the BuildAllStencils
\* of the same AssociateMesh call, and the ComputeOneMatrix calls of an
\* AssociateMesh call directly follow its ComputeMoments.
C5_MarkBuildMomentsMatrix ==
    /\ phase_log[1] = "MarkStenciledArea"
    /\ \A i \in DOMAIN phase_log :
          /\ phase_log[i] = "BuildAllStencils" =>
                \E j \in 1..(i - 1) : phase_log[j] = "MarkStenciledArea"
          /\ phase_log[i] = "ComputeMoments" =>
                i > 1 /\ phase_log[i - 1] = "BuildAllStencils"
          /\ phase_log[i] = "ComputeOneMatrix" =>
                i > 1 /\ phase_log[i - 1] = "ComputeMoments"

C5_Witness ==
    /\ Associated
    /\ FirstDone("ComputeOneMatrix") = 4
    /\ n_assoc = MaxAssociate

\* C6: every ComputeOneMatrix(pface, stencil) call of AssociateMesh is for a
\* face with GEOELM_STEN raised, made after ComputeMoments has written
\* face_cmass for every face and after BuildAllStencils has allocated the zone
\* list of (pface, stencil) and written all 2 * zones_per_stencil[stencil] of
\* its entries; no call reads an unwritten zone entry or a center of mass not
\* computed in the same AssociateMesh call.
C6_MatrixReadsOnlyWrittenData ==
    /\ ~bad_read
    /\ \A c \in geom_matr_LU : IsStenciled(c[1])
    /\ pc = "ComputeOneMatrix" =>
          /\ cmass_fresh = Faces
          /\ \A f \in StenciledFaces, s \in Stencils :
                /\ stencil_zonelist[f][s] \in heap
                /\ Len(zone_data[f][s]) = 2 * zones_per_stencil[s]
                /\ \A k \in 0..(2 * zones_per_stencil[s] - 1) :
                      ZoneEntry(f, s, k) # UNWRITTEN

C6_Witness ==
    /\ Associated
    /\ n_assoc = MaxAssociate
    /\ \E c \in geom_matr_LU :
          /\ Len(geom_matr_At[c[1]][c[2]]) = zones_per_stencil[c[2]]
          /\ geom_matr_At[c[1]][c[2]][1].zone.cart = block_vert_cart

\* C7: once BuildAllStencils has run, for every stenciled face the central
\* stencil has exactly verts_per_face + 2 zone entries: entry ic is
\* (ff_local[face][ic], 0) for ic < verts_per_face, followed by (face, -1) and
\* (face, +1); no write falls outside the 2 * (verts_per_face + 2) ints.
C7_CentralStencil ==
    StencilsBuilt =>
        /\ ~heap_overrun
        /\ zones_per_stencil[0] = verts_per_face + 2
        /\ \A f \in StenciledFaces :
              /\ Len(zone_data[f][0]) = 2 * (verts_per_face + 2)
              /\ \A ic \in 0..(verts_per_face - 1) :
                    /\ ZoneEntry(f, 0, 2 * ic) = ff_local(f)[ic + 1]
                    /\ ZoneEntry(f, 0, 2 * ic + 1) = 0
              /\ ZoneEntry(f, 0, 2 * verts_per_face) = f
              /\ ZoneEntry(f, 0, 2 * verts_per_face + 1) = 0 - 1
              /\ ZoneEntry(f, 0, 2 * verts_per_face + 2) = f
              /\ ZoneEntry(f, 0, 2 * verts_per_face + 3) = 1

C7_Witness ==
    /\ Associated
    /\ \E f \in StenciledFaces : ZoneEntry(f, 0, 2 * verts_per_face + 3) = 1

\* C8: after ComputeMoments, every face with GEOELM_NEXI raised has face_area
\* equal to 0 and face_cmass equal to the zero vector.
C8_NonExistentFacesAreZero ==
    MomentsComputed =>
        \A f \in Faces :
            NotExists(face_mask[f]) => (face_area[f] = Zero /\ face_cmass[f] = Zero)

C8_Witness ==
    /\ MomentsComputed
    /\ n_assoc = MaxAssociate
    /\ \E f \in Faces : NotExists(face_mask[f]) /\ face_area[f] = Zero
    /\ \E f \in Faces : ~NotExists(face_mask[f]) /\ face_area[f] # Zero

\* C9 as stated: the second and third zones of the directional stencils s+1
\* and s+1+verts_per_face are N's neighbours at local offsets
\* (p+1) mod verts_per_face and
\* (p + verts_per_face - (verts_per_face==4 ? 1 : 0)) mod verts_per_face, at
\* plane 0, for verts_per_face = 3 and 4.
C9_FlanksAsStated ==
    StencilsBuilt =>
        \A f \in StenciledFaces, s \in Sides :
            LET N == ff_local(f)[s]
                p == InList(verts_per_face, ff_local(N), f)
                o1 == (p + 1) % verts_per_face
                o2 == (p + verts_per_face - (IF verts_per_face = 4 THEN 1 ELSE 0))
                         % verts_per_face
            IN  \A st \in {s, s + verts_per_face} :
                   /\ ZoneEntry(f, st, 2) = ff_local(N)[o1 + 1]
                   /\ ZoneEntry(f, st, 3) = 0
                   /\ ZoneEntry(f, st, 4) = ff_local(N)[o2 + 1]
                   /\ ZoneEntry(f, st, 5) = 0

\* C9 amended: the second and third zones are N's neighbours at local offsets
\* (p+1) mod verts_per_face and (p+4-square_fill) mod verts_per_face, at plane
\* 0: offsets (p+1) mod 4 and (p+3) mod 4 for verts_per_face = 4, offsets
\* (p+1) mod 3 and (p+2) mod 3 for verts_per_face = 3; in both cases N's two
\* neighbours next to the principal face, never the principal face itself.
C9_FlanksAsBuilt ==
    StencilsBuilt =>
        \A f \in StenciledFaces, s \in Sides :
            LET N == ff_local(f)[s]
                p == InList(verts_per_face, ff_local(N), f)
                o1 == IF verts_per_face = 4 THEN (p + 1) % 4 ELSE (p + 1) % 3
                o2 == IF verts_per_face = 4 THEN (p + 3) % 4 ELSE (p + 2) % 3
            IN  /\ p >= 0
                /\ ff_local(N)[o1 + 1] # f
                /\ ff_local(N)[o2 + 1] # f
                /\ ff_local(N)[o1 + 1] # ff_local(N)[o2 + 1]
                /\ \A st \in {s, s + verts_per_face} :
                      /\ ZoneEntry(f, st, 2) = ff_local(N)[o1 + 1]
                      /\ ZoneEntry(f, st, 3) = 0
                      /\ ZoneEntry(f, st, 4) = ff_local(N)[o2 + 1]
                      /\ ZoneEntry(f, st, 5) = 0

C9_Witness ==
    /\ Associated
    /\ verts_per_face = 3
    /\ \E f \in StenciledFaces :
          /\ ZoneEntry(f, 1, 2) # ZoneEntry(f, 1, 4)
          /\ ZoneEntry(f, 1, 4) # f
          /\ ZoneEntry(f, 1, 4) \in Faces

\* C10: FreeStorage never passes to delete[] a pointer that is neither null
\* nor a currently allocated zone list, whether AssociateMesh was invoked
\* zero, one or several times.
C10_FreeStorageDeletesOnlyLivePointers == ~heap_error

C10_Witness ==
    /\ pc = "destroyed"
    /\ n_assoc = MaxAssociate
    /\ n_resize = 0
    /\ StenciledFaces # {}

====
